---------------------------- MODULE Spec2Model ----------------------------
(***************************************************************************)
(* Model of cds-weather-api: the CDSFormatter range helpers (helpers.py)   *)
(* and the RequestBuilder that fills a WeatherApi request descriptor       *)
(* (WeatherApi.py).                                                        *)
(*                                                                         *)
(* Python values are records [t |-> type name, v |-> payload]:             *)
(*   str   : v is the sequence of its characters (one-character strings)   *)
(*   int   : v is the integer                                              *)
(*   list / tuple : v is the sequence of element values                    *)
(*   NoneType : v is the empty sequence                                    *)
(* A call ends in an outcome [exc, ret]: exc.cls = "none" and ret the      *)
(* returned value, or exc the raised exception (class and the field name   *)
(* its message interpolates) and ret = PyNone.                             *)
(***************************************************************************)
EXTENDS Integers, Sequences, FiniteSets, TLC

VARIABLES
    clockYear,          \* the system clock's year (datetime.now().year)
    ERA5_CURRENT_YEAR,  \* helpers.ERA5_CURRENT_YEAR, bound when helpers is imported
    fmtLast,            \* the direct CDSFormatter call: pending, then its outcome
    heap,               \* the WeatherApi objects, by reference (index)
    request,            \* RequestBuilder._request: reference of the owned descriptor
    log,                \* the RequestBuilder calls made so far, with their outcomes
    before,             \* the heap as it was when the last call began
    builds              \* what each build() returned and showed when it returned

vars == <<clockYear, ERA5_CURRENT_YEAR, fmtLast, heap, request, log, before, builds>>

---------------------------------------------------------------------------
(* Python values *)

PyStr(chars) == [t |-> "str", v |-> chars]
PyInt(n) == [t |-> "int", v |-> n]
PyList(xs) == [t |-> "list", v |-> xs]
PyTuple(xs) == [t |-> "tuple", v |-> xs]
PyNone == [t |-> "NoneType", v |-> <<>>]

(* Exceptions: exceptions.py declares ValidationError(Exception) and its two
   subclasses; ValueError and AttributeError are Python built-ins. *)
NoExc == [cls |-> "none", field |-> ""]
Exc(c, f) == [cls |-> c, field |-> f]
Raise(c, f) == [exc |-> Exc(c, f), ret |-> PyNone]
Return(val) == [exc |-> NoExc, ret |-> val]

(* issubclass(cls, ValidationError) *)
IsValidationError(cls) == cls \in {"ValidationError", "LatitudeError", "LongitudeError"}

---------------------------------------------------------------------------
(* helpers.py: constants *)

ERA5_START_YEAR == 1939
FIRST_MONTH == 1
LAST_MONTH == 12
FIRST_DAY == 1
LAST_DAY == 31
FIRST_HOUR == 0
LAST_HOUR == 23

(* The year the clock shows when helpers.py is imported. *)
ClockYearAtLoad == 2025

(* Bounds of the model. *)
MaxClockTicks == 1      \* how many times the clock's year advances
Slack == 2              \* how far outside a valid domain the arguments reach

---------------------------------------------------------------------------
(* helpers.py: formatting *)

DigitChar == <<"0", "1", "2", "3", "4", "5", "6", "7", "8", "9">>

(* str(n) for n >= 0: the decimal digits, most significant first *)
RECURSIVE IntToStr(_)
IntToStr(n) ==
    IF n < 10 THEN <<DigitChar[n + 1]>>
    ELSE IntToStr(n \div 10) \o <<DigitChar[(n % 10) + 1]>>

(* f"{n:02d}" for n >= 0: str(n), left-padded with "0" to width 2 *)
RECURSIVE PadLeft(_, _)
PadLeft(chars, width) ==
    IF Len(chars) >= width THEN chars ELSE PadLeft(<<"0">> \o chars, width)

Format02d(n) == PadLeft(IntToStr(n), 2)

(* range(a, b): a, a+1, ..., b-1 (empty when a >= b) *)
Range(a, b) == [i \in 1..(IF b > a THEN b - a ELSE 0) |-> a + i - 1]

format_to_year_list(years) ==
    PyList([i \in 1..Len(years) |-> PyStr(IntToStr(years[i]))])

format_to_month_list(months) ==
    PyList([i \in 1..Len(months) |-> PyStr(Format02d(months[i]))])

format_to_day_list(days) ==
    PyList([i \in 1..Len(days) |-> PyStr(Format02d(days[i]))])

format_to_hour_list(hours) ==
    PyList([i \in 1..Len(hours) |-> PyStr(Format02d(hours[i]) \o <<":", "0", "0">>)])

---------------------------------------------------------------------------
(* helpers.py: CDSFormatter range helpers.  currentYear is the value of the
   module global ERA5_CURRENT_YEAR that year_range reads. *)

year_range_exclusive(start, stop, currentYear) ==
    IF start > stop THEN Raise("ValidationError", "")
    ELSE IF start < 0 \/ stop < 0 THEN Raise("ValidationError", "")
    ELSE IF ~(ERA5_START_YEAR <= start /\ start <= stop /\ stop <= currentYear)
         THEN Raise("ValidationError", "")
    ELSE Return(format_to_year_list(Range(start, stop)))

year_range(start, stop, currentYear) ==
    IF start > stop THEN Raise("ValidationError", "")
    ELSE IF start < 0 \/ stop < 0 THEN Raise("ValidationError", "")
    ELSE IF ~(ERA5_START_YEAR <= start /\ start <= stop /\ stop <= currentYear)
         THEN Raise("ValidationError", "")
    ELSE Return(format_to_year_list(Range(start, stop + 1)))

month_range_short_wrap(start, stop) ==
    IF start <= 0 \/ stop <= 0 THEN Raise("ValidationError", "")
    ELSE IF start > LAST_MONTH \/ stop > LAST_MONTH THEN Raise("ValidationError", "")
    ELSE IF start <= stop THEN Return(format_to_month_list(Range(start, stop + 1)))
    ELSE Return(format_to_month_list(Range(start, 12) \o Range(1, stop + 1)))

month_range(start, stop) ==
    IF start <= 0 \/ stop <= 0 THEN Raise("ValidationError", "")
    ELSE IF start > LAST_MONTH \/ stop > LAST_MONTH THEN Raise("ValidationError", "")
    ELSE IF start <= stop THEN Return(format_to_month_list(Range(start, stop + 1)))
    ELSE Return(format_to_month_list(Range(start, 13) \o Range(1, stop + 1)))

day_range_unordered(start, stop) ==
    IF start <= 0 \/ stop <= 0 THEN Raise("ValidationError", "")
    ELSE IF start > LAST_DAY \/ stop > LAST_DAY THEN Raise("ValidationError", "")
    ELSE Return(format_to_day_list(Range(start, stop + 1)))

day_range(start, stop) ==
    IF start > stop THEN Raise("ValidationError", "")
    ELSE IF start <= 0 \/ stop <= 0 THEN Raise("ValidationError", "")
    ELSE IF start > LAST_DAY \/ stop > LAST_DAY THEN Raise("ValidationError", "")
    ELSE Return(format_to_day_list(Range(start, stop + 1)))

time_range_wrap_from_one(start, stop) ==
    IF start < 0 \/ stop < 0 THEN Raise("ValidationError", "")
    ELSE IF start > LAST_HOUR \/ stop > LAST_HOUR THEN Raise("ValidationError", "")
    ELSE IF start <= stop THEN Return(format_to_hour_list(Range(start, stop + 1)))
    ELSE Return(format_to_hour_list(Range(start, LAST_HOUR + 1) \o Range(1, stop + 1)))

time_range(start, stop) ==
    IF start < 0 \/ stop < 0 THEN Raise("ValidationError", "")
    ELSE IF start > LAST_HOUR \/ stop > LAST_HOUR THEN Raise("ValidationError", "")
    ELSE IF start <= stop THEN Return(format_to_hour_list(Range(start, stop + 1)))
    ELSE Return(format_to_hour_list(Range(start, LAST_HOUR + 1) \o Range(FIRST_HOUR, stop + 1)))

---------------------------------------------------------------------------
(* WeatherApi.py: the request descriptor and its defaults *)

Fields ==
    {"dataset", "product_type", "variables", "year", "month", "day", "time",
     "data_format", "download_format", "area"}

WeatherApi_init ==
    [dataset |-> PyStr(<<"r", "e", "a", "n", "a", "l", "y", "s", "i", "s", "-", "e", "r", "a", "5", "-", "s", "i", "n", "g", "l", "e", "-", "l", "e", "v", "e", "l", "s">>),
     product_type |-> PyList(<<
        PyStr(<<"r", "e", "a", "n", "a", "l", "y", "s", "i", "s">>)>>),
     variables |-> PyList(<<
        PyStr(<<"1", "0", "m", "_", "u", "_", "c", "o", "m", "p", "o", "n", "e", "n", "t", "_", "o", "f", "_", "w", "i", "n", "d">>),
        PyStr(<<"1", "0", "m", "_", "v", "_", "c", "o", "m", "p", "o", "n", "e", "n", "t", "_", "o", "f", "_", "w", "i", "n", "d">>),
        PyStr(<<"2", "m", "_", "d", "e", "w", "p", "o", "i", "n", "t", "_", "t", "e", "m", "p", "e", "r", "a", "t", "u", "r", "e">>),
        PyStr(<<"2", "m", "_", "t", "e", "m", "p", "e", "r", "a", "t", "u", "r", "e">>),
        PyStr(<<"t", "o", "t", "a", "l", "_", "p", "r", "e", "c", "i", "p", "i", "t", "a", "t", "i", "o", "n">>)>>),
     year |-> PyList(<<
        PyStr(<<"2", "0", "2", "5">>)>>),
     month |-> PyList(<<
        PyStr(<<"0", "1">>),
        PyStr(<<"0", "2">>),
        PyStr(<<"0", "3">>)>>),
     day |-> PyList(<<
        PyStr(<<"0", "1">>),
        PyStr(<<"0", "2">>),
        PyStr(<<"0", "3">>),
        PyStr(<<"0", "4">>),
        PyStr(<<"0", "5">>),
        PyStr(<<"0", "6">>),
        PyStr(<<"0", "7">>),
        PyStr(<<"0", "8">>),
        PyStr(<<"0", "9">>),
        PyStr(<<"1", "0">>),
        PyStr(<<"1", "1">>),
        PyStr(<<"1", "2">>),
        PyStr(<<"1", "3">>),
        PyStr(<<"1", "4">>),
        PyStr(<<"1", "5">>),
        PyStr(<<"1", "6">>),
        PyStr(<<"1", "7">>),
        PyStr(<<"1", "8">>),
        PyStr(<<"1", "9">>),
        PyStr(<<"2", "0">>),
        PyStr(<<"2", "1">>),
        PyStr(<<"2", "2">>),
        PyStr(<<"2", "3">>),
        PyStr(<<"2", "4">>),
        PyStr(<<"2", "5">>),
        PyStr(<<"2", "6">>),
        PyStr(<<"2", "7">>),
        PyStr(<<"2", "8">>),
        PyStr(<<"2", "9">>),
        PyStr(<<"3", "0">>),
        PyStr(<<"3", "1">>)>>),
     time |-> PyList(<<
        PyStr(<<"0", "0", ":", "0", "0">>),
        PyStr(<<"0", "1", ":", "0", "0">>),
        PyStr(<<"0", "2", ":", "0", "0">>),
        PyStr(<<"0", "3", ":", "0", "0">>),
        PyStr(<<"0", "4", ":", "0", "0">>),
        PyStr(<<"0", "5", ":", "0", "0">>),
        PyStr(<<"0", "6", ":", "0", "0">>),
        PyStr(<<"0", "7", ":", "0", "0">>),
        PyStr(<<"0", "8", ":", "0", "0">>),
        PyStr(<<"0", "9", ":", "0", "0">>),
        PyStr(<<"1", "0", ":", "0", "0">>),
        PyStr(<<"1", "1", ":", "0", "0">>),
        PyStr(<<"1", "2", ":", "0", "0">>),
        PyStr(<<"1", "3", ":", "0", "0">>),
        PyStr(<<"1", "4", ":", "0", "0">>),
        PyStr(<<"1", "5", ":", "0", "0">>),
        PyStr(<<"1", "6", ":", "0", "0">>),
        PyStr(<<"1", "7", ":", "0", "0">>),
        PyStr(<<"1", "8", ":", "0", "0">>),
        PyStr(<<"1", "9", ":", "0", "0">>),
        PyStr(<<"2", "0", ":", "0", "0">>),
        PyStr(<<"2", "1", ":", "0", "0">>),
        PyStr(<<"2", "2", ":", "0", "0">>),
        PyStr(<<"2", "3", ":", "0", "0">>)>>),
     data_format |-> PyStr(<<"n", "e", "t", "c", "d", "f">>),
     download_format |-> PyStr(<<"u", "n", "a", "r", "c", "h", "i", "v", "e", "d">>),
     area |-> PyList(<<PyInt(40), PyInt(60), PyInt(0), PyInt(100)>>)]

---------------------------------------------------------------------------
(* WeatherApi.py: RequestBuilder.  A method takes the heap h and the
   builder's descriptor reference ref, and yields [heap, exc, ret]. *)

PyRef(type, id) == [t |-> type, v |-> <<id>>]

(* the one RequestBuilder instance; every setter ends in "return self" *)
Self == PyRef("RequestBuilder", 1)

Abort(h, exc) == [heap |-> h, exc |-> exc, ret |-> PyNone]

SetField(h, ref, f, val) ==
    [heap |-> [h EXCEPT ![ref] = [@ EXCEPT ![f] = val]], exc |-> NoExc, ret |-> Self]

validate_list_of_strings_first_only(data, field) ==
    IF data.t # "list" \/ (Len(data.v) > 0 /\ data.v[1].t # "str")
    THEN Raise("ValueError", field)
    ELSE Return(PyNone)

validate_list_of_strings(data, field) ==
    IF data.t # "list" \/ ~(\A i \in 1..Len(data.v) : data.v[i].t = "str")
    THEN Raise("ValueError", field)
    ELSE Return(PyNone)

validate_list_of_numbers(data) ==
    IF data.t # "list" \/ ~(\A i \in 1..Len(data.v) : data.v[i].t \in {"int", "float"})
    THEN Raise("ValueError", "")
    ELSE Return(PyNone)

dataset(h, ref, name) == SetField(h, ref, "dataset", name)

SetListOfStrings(h, ref, f, arg) ==
    LET chk == validate_list_of_strings(arg, f)
    IN  IF chk.exc.cls # "none" THEN Abort(h, chk.exc) ELSE SetField(h, ref, f, arg)

product_type(h, ref, arg) == SetListOfStrings(h, ref, "product_type", arg)
variables(h, ref, arg) == SetListOfStrings(h, ref, "variables", arg)
year(h, ref, arg) == SetListOfStrings(h, ref, "year", arg)
month(h, ref, arg) == SetListOfStrings(h, ref, "month", arg)
day(h, ref, arg) == SetListOfStrings(h, ref, "day", arg)
time(h, ref, arg) == SetListOfStrings(h, ref, "time", arg)

(* self._request.<f> = fmt.<f>_range(...): the right-hand side is evaluated
   first, so a raise leaves the field unassigned *)
AssignRange(h, ref, f, out) ==
    IF out.exc.cls # "none" THEN Abort(h, out.exc) ELSE SetField(h, ref, f, out.ret)

builder_year_range(h, ref, start, stop, currentYear) ==
    AssignRange(h, ref, "year", year_range(start, stop, currentYear))

builder_month_range_into_day(h, ref, start, stop) ==
    AssignRange(h, ref, "day", month_range(start, stop))

builder_month_range(h, ref, start, stop) ==
    AssignRange(h, ref, "month", month_range(start, stop))

builder_day_range(h, ref, start, stop) ==
    AssignRange(h, ref, "day", day_range(start, stop))

builder_time_range(h, ref, start, stop) ==
    AssignRange(h, ref, "time", time_range(start, stop))

(* str.strip() and str.lower() on the characters the model draws from *)
Whitespace == {" ", "\t", "\n"}
UpperChars == <<"C", "D", "F", "N", "G", "R", "I", "B", "Z", "P", "U", "A", "H", "V", "E", "T", "S">>
LowerChars == <<"c", "d", "f", "n", "g", "r", "i", "b", "z", "p", "u", "a", "h", "v", "e", "t", "s">>

LowerChar(c) ==
    IF \E i \in 1..Len(UpperChars) : UpperChars[i] = c
    THEN LowerChars[CHOOSE i \in 1..Len(UpperChars) : UpperChars[i] = c]
    ELSE c

StrLower(chars) == [i \in 1..Len(chars) |-> LowerChar(chars[i])]

RECURSIVE LStrip(_)
LStrip(chars) ==
    IF chars # <<>> /\ Head(chars) \in Whitespace THEN LStrip(Tail(chars)) ELSE chars

RECURSIVE RStrip(_)
RStrip(chars) ==
    IF chars # <<>> /\ chars[Len(chars)] \in Whitespace
    THEN RStrip(SubSeq(chars, 1, Len(chars) - 1))
    ELSE chars

StrStrip(chars) == RStrip(LStrip(chars))

AllowedDataFormats == {<<"n", "e", "t", "c", "d", "f">>, <<"g", "r", "i", "b">>}
AllowedDownloadFormats ==
    {<<"u", "n", "a", "r", "c", "h", "i", "v", "e", "d">>, <<"z", "i", "p">>}

(* value.strip().lower() raises AttributeError on a value that is no str *)
SetFormat(h, ref, f, allowed, arg) ==
    IF arg.t # "str" THEN Abort(h, Exc("AttributeError", ""))
    ELSE LET cleaned == StrLower(StrStrip(arg.v))
         IN  IF StrStrip(StrLower(cleaned)) \notin allowed
             THEN Abort(h, Exc("ValidationError", f))
             ELSE SetField(h, ref, f, PyStr(cleaned))

data_format_store_raw(h, ref, arg) ==
    IF arg.t # "str" THEN Abort(h, Exc("AttributeError", ""))
    ELSE IF StrStrip(StrLower(arg.v)) \notin AllowedDataFormats
         THEN Abort(h, Exc("ValidationError", "data_format"))
         ELSE SetField(h, ref, "data_format", arg)

data_format(h, ref, arg) == SetFormat(h, ref, "data_format", AllowedDataFormats, arg)

download_format_write_first(h, ref, arg) ==
    IF arg.t # "str" THEN Abort(h, Exc("AttributeError", ""))
    ELSE LET cleaned == StrLower(StrStrip(arg.v))
             written == SetField(h, ref, "download_format", PyStr(cleaned))
         IN  IF cleaned \notin AllowedDownloadFormats
             THEN Abort(written.heap, Exc("ValidationError", "download_format"))
             ELSE written

download_format(h, ref, arg) ==
    SetFormat(h, ref, "download_format", AllowedDownloadFormats, arg)

area_unordered(h, ref, arg) ==
    LET chk == validate_list_of_numbers(arg)
    IN  IF chk.exc.cls # "none" THEN Abort(h, chk.exc)
        ELSE IF Len(arg.v) # 4 THEN Abort(h, Exc("ValidationError", ""))
        ELSE LET n == arg.v[1].v
                 w == arg.v[2].v
                 s == arg.v[3].v
                 e == arg.v[4].v
             IN  IF ~(-90 <= s /\ -90 <= n /\ s <= 90 /\ n <= 90) THEN Abort(h, Exc("LatitudeError", ""))
                 ELSE IF ~(-180 <= w /\ -180 <= e /\ w <= 180 /\ e <= 180) THEN Abort(h, Exc("LongitudeError", ""))
                 ELSE SetField(h, ref, "area", arg)

area_longitude_first(h, ref, arg) ==
    LET chk == validate_list_of_numbers(arg)
    IN  IF chk.exc.cls # "none" THEN Abort(h, chk.exc)
        ELSE IF Len(arg.v) # 4 THEN Abort(h, Exc("ValidationError", ""))
        ELSE LET n == arg.v[1].v
                 w == arg.v[2].v
                 s == arg.v[3].v
                 e == arg.v[4].v
             IN  IF ~(-180 <= w /\ w <= e /\ e <= 180) THEN Abort(h, Exc("LongitudeError", ""))
                 ELSE IF ~(-90 <= s /\ s <= n /\ n <= 90) THEN Abort(h, Exc("LatitudeError", ""))
                 ELSE SetField(h, ref, "area", arg)

area(h, ref, arg) ==
    LET chk == validate_list_of_numbers(arg)
    IN  IF chk.exc.cls # "none" THEN Abort(h, chk.exc)
        ELSE IF Len(arg.v) # 4 THEN Abort(h, Exc("ValidationError", ""))
        ELSE LET n == arg.v[1].v
                 w == arg.v[2].v
                 s == arg.v[3].v
                 e == arg.v[4].v
             IN  IF ~(-90 <= s /\ s <= n /\ n <= 90) THEN Abort(h, Exc("LatitudeError", ""))
                 ELSE IF ~(-180 <= w /\ w <= e /\ e <= 180) THEN Abort(h, Exc("LongitudeError", ""))
                 ELSE SetField(h, ref, "area", arg)

build_copy(h, ref) ==
    [heap |-> Append(h, h[ref]), exc |-> NoExc, ret |-> PyRef("WeatherApi", Len(h) + 1)]

(* return self._request: the reference itself, no copy *)
build(h, ref) == [heap |-> h, exc |-> NoExc, ret |-> PyRef("WeatherApi", ref)]

---------------------------------------------------------------------------
(* Dispatch of one RequestBuilder call c = [op, args].  currentYear is the
   value ERA5_CURRENT_YEAR had when WeatherApi.py was imported: it is both
   the bound year_range checks and the default of the omitted stop. *)

Invoke(h, ref, c, currentYear) ==
    CASE c.op = "dataset" -> dataset(h, ref, c.args[1])
      [] c.op = "product_type" -> product_type(h, ref, c.args[1])
      [] c.op = "variables" -> variables(h, ref, c.args[1])
      [] c.op = "year" -> year(h, ref, c.args[1])
      [] c.op = "month" -> month(h, ref, c.args[1])
      [] c.op = "day" -> day(h, ref, c.args[1])
      [] c.op = "time" -> time(h, ref, c.args[1])
      [] c.op = "year_range" ->
            builder_year_range(h, ref, c.args[1].v,
                IF Len(c.args) = 1 THEN currentYear ELSE c.args[2].v, currentYear)
      [] c.op = "month_range" -> builder_month_range(h, ref, c.args[1].v, c.args[2].v)
      [] c.op = "day_range" -> builder_day_range(h, ref, c.args[1].v, c.args[2].v)
      [] c.op = "time_range" -> builder_time_range(h, ref, c.args[1].v, c.args[2].v)
      [] c.op = "data_format" -> data_format(h, ref, c.args[1])
      [] c.op = "download_format" -> download_format(h, ref, c.args[1])
      [] c.op = "area" -> area(h, ref, c.args[1])
      [] c.op = "build" -> build(h, ref)

Call(op, args) == [op |-> op, args |-> args]
PairCalls(op, pairs) == {Call(op, <<PyInt(p[1]), PyInt(p[2])>>) : p \in pairs}

NoCall == [op |-> "none", args |-> <<>>, exc |-> NoExc, ret |-> PyNone]

(* the last RequestBuilder call and its outcome *)
last == IF log = <<>> THEN NoCall ELSE log[Len(log)]

---------------------------------------------------------------------------
(* Arguments the calls are drawn from *)

Chars_2024 == <<"2", "0", "2", "4">>
Chars_era5 == <<"e", "r", "a", "5">>

DatasetArgs == {PyStr(Chars_era5)}

(* one accepted and one rejected argument of a list setter *)
BasicListArgs ==
    {PyList(<<PyStr(Chars_2024)>>), PyList(<<PyStr(Chars_2024), PyInt(5)>>)}

(* lists of strings (the empty one too), lists with another element, and
   values that are no list *)
AnyListArgs ==
    {PyList(<<>>),
     PyList(<<PyStr(Chars_2024)>>),
     PyList(<<PyInt(5)>>),
     PyList(<<PyStr(Chars_2024), PyInt(5)>>),
     PyList(<<PyStr(Chars_2024), PyNone>>),
     PyTuple(<<PyStr(Chars_2024)>>),
     PyStr(Chars_2024),
     PyNone}

BasicYearPairs == {<<2024, 2024>>, <<1938, 2024>>}
BasicYearStarts == {2024}
BasicMonthPairs == {<<9, 4>>, <<0, 4>>}
BasicDayPairs == {<<1, 15>>, <<15, 1>>}
BasicTimePairs == {<<12, 1>>, <<12, 24>>}

Pads == {<<>>, <<" ">>, <<"\t", " ">>, <<"\n">>}
FormatCores ==
    {<<"n", "e", "t", "c", "d", "f">>, <<"N", "e", "t", "C", "D", "F">>,
     <<"n", "e", "t", " ", "c", "d", "f">>,
     <<"g", "r", "i", "b">>, <<"G", "R", "I", "B">>, <<"c", "s", "v">>,
     <<"z", "i", "p">>, <<"Z", "i", "p">>, <<"t", "a", "r">>,
     <<"u", "n", "a", "r", "c", "h", "i", "v", "e", "d">>,
     <<"U", "n", "A", "r", "c", "h", "i", "v", "e", "d">>,
     <<>>}
AnyFormatArgs ==
    {PyStr(pre \o core \o suf) : pre \in Pads, core \in FormatCores, suf \in Pads}
        \cup {PyNone}

BasicDataFormatArgs ==
    {PyStr(<<" ", "G", "r", "i", "b", " ">>), PyStr(<<"c", "s", "v">>), PyNone}
BasicDownloadFormatArgs == {PyStr(<<"Z", "I", "P", "\n">>), PyStr(<<"t", "a", "r">>)}

Box(n, w, s, e) == PyList(<<PyInt(n), PyInt(w), PyInt(s), PyInt(e)>>)
BasicAreaArgs ==
    {Box(90, -120, -90, 180), Box(0, 60, 40, 100), Box(40, 100, 0, 60),
     PyList(<<PyInt(40), PyStr(<<"6", "0">>), PyInt(0), PyInt(100)>>)}

Latitudes == {-91, -90, 0, 90, 91}
Longitudes == {-181, -180, 0, 180, 181}
AnyAreaArgs ==
    {Box(n, w, s, e) : n \in Latitudes, w \in Longitudes, s \in Latitudes, e \in Longitudes}
        \cup {Box(40, 60, 0, 100), Box(0, 60, 40, 100), Box(40, 100, 0, 60)}
        \cup {PyList(<<>>), PyList(<<PyInt(1), PyInt(2), PyInt(3)>>),
              PyList(<<PyInt(91), PyInt(181), PyInt(0), PyInt(0), PyInt(0)>>)}

(* Bounds: how many RequestBuilder calls the caller makes *)
MaxCalls == 3           \* with one accepted and one rejected argument per setter
MaxListCalls == 2       \* with every kind of list argument
MaxFormatCalls == 1     \* with every padded and mixed-case string
MaxAreaCalls == 1       \* with every box around the limits

YearArgs ==
    ((0 - Slack)..0) \cup
    ((ERA5_START_YEAR - Slack)..(ClockYearAtLoad + MaxClockTicks + Slack))
MonthArgs == (0 - Slack)..(LAST_MONTH + Slack)
DayArgs == (0 - Slack)..(LAST_DAY + Slack)
HourArgs == (0 - Slack)..(LAST_HOUR + Slack)

---------------------------------------------------------------------------
(* Initial state: the modules are imported (ERA5_CURRENT_YEAR is bound to the
   clock's year) and RequestBuilder() has built its WeatherApi(). *)

Init ==
    /\ clockYear = ClockYearAtLoad
    /\ ERA5_CURRENT_YEAR = clockYear
    /\ fmtLast = NoCall
    /\ heap = <<WeatherApi_init>>
    /\ request = 1
    /\ log = <<>>
    /\ before = heap
    /\ builds = <<>>

(* the year of the system clock advances *)
Tick ==
    /\ clockYear < ClockYearAtLoad + MaxClockTicks
    /\ clockYear' = clockYear + 1
    /\ UNCHANGED <<ERA5_CURRENT_YEAR, fmtLast, heap, request, log, before, builds>>

---------------------------------------------------------------------------
(* One direct call of a CDSFormatter range helper *)

FmtStep(op, start, stop, out) ==
    /\ fmtLast' = [op |-> op, args |-> <<start, stop>>, exc |-> out.exc, ret |-> out.ret]
    /\ UNCHANGED <<clockYear, ERA5_CURRENT_YEAR, heap, request, log, before, builds>>

fmt_year_range ==
    /\ fmtLast.op = "none"
    /\ \E start \in YearArgs, stop \in YearArgs :
        FmtStep("year_range", start, stop, year_range(start, stop, ERA5_CURRENT_YEAR))

fmt_month_range ==
    /\ fmtLast.op = "none"
    /\ \E start \in MonthArgs, stop \in MonthArgs :
        FmtStep("month_range", start, stop, month_range(start, stop))

fmt_day_range ==
    /\ fmtLast.op = "none"
    /\ \E start \in DayArgs, stop \in DayArgs :
        FmtStep("day_range", start, stop, day_range(start, stop))

fmt_time_range ==
    /\ fmtLast.op = "none"
    /\ \E start \in HourArgs, stop \in HourArgs :
        FmtStep("time_range", start, stop, time_range(start, stop))

NextFmt == fmt_year_range \/ fmt_month_range \/ fmt_day_range \/ fmt_time_range \/ Tick

SpecFmt == Init /\ [][NextFmt]_vars

---------------------------------------------------------------------------
(* Calls on the RequestBuilder.  A call is logged with its outcome; a build()
   is also recorded with the reference it returned and the descriptor that
   reference showed at that moment. *)

Step(c) ==
    \E out \in {Invoke(heap, request, c, ERA5_CURRENT_YEAR)} :
        /\ heap' = out.heap
        /\ before' = heap
        /\ log' = Append(log, [op |-> c.op, args |-> c.args, exc |-> out.exc, ret |-> out.ret])
        /\ builds' = IF c.op = "build"
                     THEN Append(builds, [ret |-> out.ret, seen |-> out.heap[out.ret.v[1]],
                                          at |-> Len(log) + 1])
                     ELSE builds
        /\ UNCHANGED <<clockYear, ERA5_CURRENT_YEAR, fmtLast, request>>

dataset_call ==
    /\ Len(log) < MaxCalls
    /\ \E a \in DatasetArgs : Step(Call("dataset", <<a>>))
product_type_call ==
    /\ Len(log) < MaxCalls
    /\ \E a \in BasicListArgs : Step(Call("product_type", <<a>>))
variables_call ==
    /\ Len(log) < MaxCalls
    /\ \E a \in BasicListArgs : Step(Call("variables", <<a>>))
year_call ==
    /\ Len(log) < MaxCalls
    /\ \E a \in BasicListArgs : Step(Call("year", <<a>>))
month_call ==
    /\ Len(log) < MaxCalls
    /\ \E a \in BasicListArgs : Step(Call("month", <<a>>))
day_call ==
    /\ Len(log) < MaxCalls
    /\ \E a \in BasicListArgs : Step(Call("day", <<a>>))
time_call ==
    /\ Len(log) < MaxCalls
    /\ \E a \in BasicListArgs : Step(Call("time", <<a>>))
year_range_call ==
    /\ Len(log) < MaxCalls
    /\ \E c \in PairCalls("year_range", BasicYearPairs)
                \cup {Call("year_range", <<PyInt(s)>>) : s \in BasicYearStarts} : Step(c)
month_range_call ==
    /\ Len(log) < MaxCalls
    /\ \E c \in PairCalls("month_range", BasicMonthPairs) : Step(c)
day_range_call ==
    /\ Len(log) < MaxCalls
    /\ \E c \in PairCalls("day_range", BasicDayPairs) : Step(c)
time_range_call ==
    /\ Len(log) < MaxCalls
    /\ \E c \in PairCalls("time_range", BasicTimePairs) : Step(c)
data_format_call ==
    /\ Len(log) < MaxCalls
    /\ \E a \in BasicDataFormatArgs : Step(Call("data_format", <<a>>))
download_format_call ==
    /\ Len(log) < MaxCalls
    /\ \E a \in BasicDownloadFormatArgs : Step(Call("download_format", <<a>>))
area_call ==
    /\ Len(log) < MaxCalls
    /\ \E a \in BasicAreaArgs : Step(Call("area", <<a>>))
build_call ==
    /\ Len(log) < MaxCalls
    /\ Step(Call("build", <<>>))

Next ==
    \/ dataset_call
    \/ product_type_call
    \/ variables_call
    \/ year_call
    \/ year_range_call
    \/ month_call
    \/ month_range_call
    \/ day_call
    \/ day_range_call
    \/ time_call
    \/ time_range_call
    \/ data_format_call
    \/ download_format_call
    \/ area_call
    \/ build_call

Spec == Init /\ [][Next]_vars

(* The list setters on every kind of argument *)
product_type_any ==
    /\ Len(log) < MaxListCalls
    /\ \E a \in AnyListArgs : Step(Call("product_type", <<a>>))
variables_any ==
    /\ Len(log) < MaxListCalls
    /\ \E a \in AnyListArgs : Step(Call("variables", <<a>>))
year_any ==
    /\ Len(log) < MaxListCalls
    /\ \E a \in AnyListArgs : Step(Call("year", <<a>>))
month_any ==
    /\ Len(log) < MaxListCalls
    /\ \E a \in AnyListArgs : Step(Call("month", <<a>>))
day_any ==
    /\ Len(log) < MaxListCalls
    /\ \E a \in AnyListArgs : Step(Call("day", <<a>>))
time_any ==
    /\ Len(log) < MaxListCalls
    /\ \E a \in AnyListArgs : Step(Call("time", <<a>>))

NextLists ==
    product_type_any \/ variables_any \/ year_any \/ month_any \/ day_any \/ time_any

SpecLists == Init /\ [][NextLists]_vars

(* The two format setters on padded and mixed-case strings *)
data_format_any ==
    /\ Len(log) < MaxFormatCalls
    /\ \E a \in AnyFormatArgs : Step(Call("data_format", <<a>>))
download_format_any ==
    /\ Len(log) < MaxFormatCalls
    /\ \E a \in AnyFormatArgs : Step(Call("download_format", <<a>>))

NextFormats == data_format_any \/ download_format_any

SpecFormats == Init /\ [][NextFormats]_vars

(* area on boxes around the latitude and longitude limits *)
area_any ==
    /\ Len(log) < MaxAreaCalls
    /\ \E a \in AnyAreaArgs : Step(Call("area", <<a>>))

NextArea == area_any

SpecArea == Init /\ [][NextArea]_vars

(* year_range on the builder while the clock's year advances: calls with and
   without stop, on the years around the one the modules were imported in *)
MaxClockCalls == 2
ClockYearPairs ==
    {<<a, b>> \in ((ClockYearAtLoad - 1)..(ClockYearAtLoad + MaxClockTicks))
                    \X ((ClockYearAtLoad - 1)..(ClockYearAtLoad + MaxClockTicks)) : a <= b}
ClockYearStarts == (ClockYearAtLoad - 1)..(ClockYearAtLoad + MaxClockTicks)

year_range_stop_call ==
    /\ Len(log) < MaxClockCalls
    /\ \E c \in PairCalls("year_range", ClockYearPairs) : Step(c)
year_range_default_call ==
    /\ Len(log) < MaxClockCalls
    /\ \E s \in ClockYearStarts : Step(Call("year_range", <<PyInt(s)>>))

NextClock == year_range_stop_call \/ year_range_default_call \/ Tick

SpecClock == Init /\ [][NextClock]_vars

---------------------------------------------------------------------------
(* Reading the produced strings back: what a string of digits denotes *)

IsDigit(ch) == \E d \in 0..9 : DigitChar[d + 1] = ch
DigitVal(ch) == CHOOSE d \in 0..9 : DigitChar[d + 1] = ch

(* chars is exactly two digits and they denote n *)
IsTwoDigitsOf(chars, n) ==
    /\ Len(chars) = 2
    /\ IsDigit(chars[1]) /\ IsDigit(chars[2])
    /\ 10 * DigitVal(chars[1]) + DigitVal(chars[2]) = n

(* chars is "HH:00" with HH denoting n *)
IsHourOf(chars, n) ==
    /\ Len(chars) = 5
    /\ IsTwoDigitsOf(SubSeq(chars, 1, 2), n)
    /\ SubSeq(chars, 3, 5) = <<":", "0", "0">>

RECURSIVE ParseDecimal(_)
ParseDecimal(chars) ==
    IF chars = <<>> THEN 0
    ELSE 10 * ParseDecimal(SubSeq(chars, 1, Len(chars) - 1)) + DigitVal(chars[Len(chars)])

(* chars is the decimal numeral of n, without sign or leading zero *)
IsDecimalOf(chars, n) ==
    /\ Len(chars) >= 1
    /\ \A i \in 1..Len(chars) : IsDigit(chars[i])
    /\ (Len(chars) > 1 => chars[1] # "0")
    /\ ParseDecimal(chars) = n

NoDuplicates(xs) == \A i, j \in 1..Len(xs) : i # j => xs[i] # xs[j]

(* the i-th value of the cyclic arc from start to stop on the axis lo..hi *)
ArcValue(start, stop, lo, hi, i) ==
    IF start <= stop \/ start + i - 1 <= hi
    THEN start + i - 1
    ELSE lo + (i - 1) - (hi - start + 1)

---------------------------------------------------------------------------
(* C1: month_range(start, stop) raises a ValidationError exactly when start or
   stop is <= 0 or > 12; otherwise it returns the two-digit strings of start..stop
   (start <= stop) or of start..12 followed by 1..stop (start > stop): it has
   ((stop - start) mod 12) + 1 elements and no duplicates. *)
C1_MonthRange ==
    fmtLast.op = "month_range" =>
        LET start == fmtLast.args[1]
            stop == fmtLast.args[2]
            bad == start <= 0 \/ stop <= 0 \/ start > 12 \/ stop > 12
            r == fmtLast.ret.v
        IN  /\ bad => fmtLast.exc.cls = "ValidationError"
            /\ ~bad =>
                /\ fmtLast.exc = NoExc
                /\ fmtLast.ret.t = "list"
                /\ Len(r) = ((stop - start) % 12) + 1
                /\ \A i \in 1..Len(r) :
                      /\ r[i].t = "str"
                      /\ IsTwoDigitsOf(r[i].v, ArcValue(start, stop, 1, 12, i))
                /\ NoDuplicates(r)

C1_Witness ==
    /\ fmtLast.op = "month_range"
    /\ fmtLast.args = <<9, 4>>
    /\ fmtLast.ret =
          PyList(<<PyStr(<<"0", "9">>), PyStr(<<"1", "0">>), PyStr(<<"1", "1">>),
                   PyStr(<<"1", "2">>), PyStr(<<"0", "1">>), PyStr(<<"0", "2">>),
                   PyStr(<<"0", "3">>), PyStr(<<"0", "4">>)>>)

(* C2: time_range(start, stop) raises a ValidationError exactly when start or
   stop is negative or > 23; otherwise it returns the "HH:00" strings of
   start..stop (start <= stop) or of start..23 followed by 0..stop
   (start > stop): it has ((stop - start) mod 24) + 1 elements and no
   duplicates. *)
C2_TimeRange ==
    fmtLast.op = "time_range" =>
        LET start == fmtLast.args[1]
            stop == fmtLast.args[2]
            bad == start < 0 \/ stop < 0 \/ start > 23 \/ stop > 23
            r == fmtLast.ret.v
        IN  /\ bad => fmtLast.exc.cls = "ValidationError"
            /\ ~bad =>
                /\ fmtLast.exc = NoExc
                /\ fmtLast.ret.t = "list"
                /\ Len(r) = ((stop - start) % 24) + 1
                /\ \A i \in 1..Len(r) :
                      /\ r[i].t = "str"
                      /\ IsHourOf(r[i].v, ArcValue(start, stop, 0, 23, i))
                /\ NoDuplicates(r)

C2_Witness ==
    /\ fmtLast.op = "time_range"
    /\ fmtLast.args = <<12, 1>>
    /\ fmtLast.exc = NoExc
    /\ Len(fmtLast.ret.v) = 14
    /\ fmtLast.ret.v[1] = PyStr(<<"1", "2", ":", "0", "0">>)
    /\ fmtLast.ret.v[12] = PyStr(<<"2", "3", ":", "0", "0">>)
    /\ fmtLast.ret.v[13] = PyStr(<<"0", "0", ":", "0", "0">>)
    /\ fmtLast.ret.v[14] = PyStr(<<"0", "1", ":", "0", "0">>)

(* C3: year_range(start, stop) never wraps: it raises a ValidationError when
   start > stop, when a bound is negative, and when not
   (1939 <= start <= stop <= ERA5_CURRENT_YEAR); otherwise it returns the
   decimal strings of start, start+1, ..., stop, stop - start + 1 of them. *)
C3_YearRange ==
    fmtLast.op = "year_range" =>
        LET start == fmtLast.args[1]
            stop == fmtLast.args[2]
            bad == \/ start > stop
                   \/ start < 0 \/ stop < 0
                   \/ ~(1939 <= start /\ start <= stop /\ stop <= ERA5_CURRENT_YEAR)
            r == fmtLast.ret.v
        IN  /\ bad => fmtLast.exc.cls = "ValidationError"
            /\ ~bad =>
                /\ fmtLast.exc = NoExc
                /\ fmtLast.ret.t = "list"
                /\ Len(r) = stop - start + 1
                /\ \A i \in 1..Len(r) :
                      /\ r[i].t = "str"
                      /\ IsDecimalOf(r[i].v, start + i - 1)

C3_Witness ==
    /\ fmtLast.op = "year_range"
    /\ fmtLast.args = <<2023, 2025>>
    /\ fmtLast.ret =
          PyList(<<PyStr(<<"2", "0", "2", "3">>), PyStr(<<"2", "0", "2", "4">>),
                   PyStr(<<"2", "0", "2", "5">>)>>)

(* C4: day_range(start, stop) raises a ValidationError exactly when
   start > stop or a bound is <= 0 or > 31; for 1 <= start <= stop <= 31 it
   returns the two-digit strings of start..stop in increasing order,
   stop - start + 1 of them, whatever the month. *)
C4_DayRange ==
    fmtLast.op = "day_range" =>
        LET start == fmtLast.args[1]
            stop == fmtLast.args[2]
            bad == start > stop \/ start <= 0 \/ stop <= 0 \/ start > 31 \/ stop > 31
            r == fmtLast.ret.v
        IN  /\ bad => fmtLast.exc.cls = "ValidationError"
            /\ ~bad =>
                /\ fmtLast.exc = NoExc
                /\ fmtLast.ret.t = "list"
                /\ Len(r) = stop - start + 1
                /\ \A i \in 1..Len(r) :
                      /\ r[i].t = "str"
                      /\ IsTwoDigitsOf(r[i].v, start + i - 1)

C4_Witness ==
    /\ fmtLast.op = "day_range"
    /\ fmtLast.args = <<29, 31>>
    /\ fmtLast.ret =
          PyList(<<PyStr(<<"2", "9">>), PyStr(<<"3", "0">>), PyStr(<<"3", "1">>)>>)

---------------------------------------------------------------------------
(* What the claims expect of a call, written from their wording *)

SetterOps ==
    {"dataset", "product_type", "variables", "year", "month", "day", "time",
     "year_range", "month_range", "day_range", "time_range",
     "data_format", "download_format", "area"}
ListSetterOps == {"product_type", "variables", "year", "month", "day", "time"}

(* the descriptor field a setter is named after *)
TargetField(op) ==
    CASE op = "year_range" -> "year"
      [] op = "month_range" -> "month"
      [] op = "day_range" -> "day"
      [] op = "time_range" -> "time"
      [] OTHER -> op

(* the builder's descriptor now, and when the last call began *)
Descriptor == heap[request]
DescriptorBefore == before[request]

SetMin(S) == CHOOSE x \in S : \A y \in S : x <= y
SetMax(S) == CHOOSE x \in S : \A y \in S : y <= x

LowerOf ==
    ("A" :> "a") @@ ("B" :> "b") @@ ("C" :> "c") @@ ("D" :> "d") @@ ("E" :> "e") @@
    ("F" :> "f") @@ ("G" :> "g") @@ ("H" :> "h") @@ ("I" :> "i") @@ ("N" :> "n") @@
    ("P" :> "p") @@ ("R" :> "r") @@ ("T" :> "t") @@ ("U" :> "u") @@ ("V" :> "v") @@
    ("Z" :> "z")

(* chars without its surrounding blanks, in lower case *)
Normalized(chars) ==
    LET inked == {i \in 1..Len(chars) : chars[i] \notin {" ", "\t", "\n"}}
        core == IF inked = {} THEN <<>> ELSE SubSeq(chars, SetMin(inked), SetMax(inked))
    IN  [i \in 1..Len(core) |->
            IF core[i] \in DOMAIN LowerOf THEN LowerOf[core[i]] ELSE core[i]]

Chars_netcdf == <<"n", "e", "t", "c", "d", "f">>
Chars_grib == <<"g", "r", "i", "b">>
Chars_unarchived == <<"u", "n", "a", "r", "c", "h", "i", "v", "e", "d">>
Chars_zip == <<"z", "i", "p">>

TwoDigits(n) == <<DigitChar[(n \div 10) + 1], DigitChar[(n % 10) + 1]>>
FourDigits(n) ==
    <<DigitChar[(n \div 1000) + 1], DigitChar[((n \div 100) % 10) + 1],
      DigitChar[((n \div 10) % 10) + 1], DigitChar[(n % 10) + 1]>>

(* the value a successful setter call c is to leave in its field *)
Given(c) ==
    CASE c.op = "year_range" ->
            LET start == c.args[1].v
                stop == IF Len(c.args) = 1 THEN ERA5_CURRENT_YEAR ELSE c.args[2].v
            IN  PyList([i \in 1..(stop - start + 1) |-> PyStr(FourDigits(start + i - 1))])
      [] c.op = "month_range" ->
            LET start == c.args[1].v
                stop == c.args[2].v
            IN  PyList([i \in 1..(((stop - start) % 12) + 1) |->
                            PyStr(TwoDigits(ArcValue(start, stop, 1, 12, i)))])
      [] c.op = "day_range" ->
            LET start == c.args[1].v
                stop == c.args[2].v
            IN  PyList([i \in 1..(stop - start + 1) |-> PyStr(TwoDigits(start + i - 1))])
      [] c.op = "time_range" ->
            LET start == c.args[1].v
                stop == c.args[2].v
            IN  PyList([i \in 1..(((stop - start) % 24) + 1) |->
                            PyStr(TwoDigits(ArcValue(start, stop, 0, 23, i))
                                  \o <<":", "0", "0">>)])
      [] c.op \in {"data_format", "download_format"} -> PyStr(Normalized(c.args[1].v))
      [] OTHER -> c.args[1]

Succeeded(c) == c.exc = NoExc
Failed(c) == c.exc # NoExc

---------------------------------------------------------------------------
(* C5: area(box) on a list of numbers: a length other than 4 raises a plain
   ValidationError; a four-number box (north, west, south, east) raises a
   LatitudeError if not (-90 <= south <= north <= 90), a LongitudeError if the
   latitudes are valid and not (-180 <= west <= east <= 180), and otherwise
   succeeds with the descriptor's area equal to the box.  With both rules
   violated the error is the LatitudeError. *)
C5_Area ==
    (last.op = "area" /\ last.args[1].t = "list"
        /\ \A i \in 1..Len(last.args[1].v) : last.args[1].v[i].t = "int") =>
        LET box == last.args[1].v
        IN  IF Len(box) # 4 THEN last.exc.cls = "ValidationError"
            ELSE LET north == box[1].v
                     west == box[2].v
                     south == box[3].v
                     east == box[4].v
                     latOK == -90 <= south /\ south <= north /\ north <= 90
                     lonOK == -180 <= west /\ west <= east /\ east <= 180
                 IN  /\ ~latOK => last.exc.cls = "LatitudeError"
                     /\ (latOK /\ ~lonOK) => last.exc.cls = "LongitudeError"
                     /\ (latOK /\ lonOK) =>
                            /\ Succeeded(last)
                            /\ Descriptor.area = last.args[1]

(* a box that breaks both rules was rejected, with the LatitudeError *)
C5_Witness ==
    /\ last.op = "area"
    /\ last.args[1] = Box(-91, 181, 91, -181)
    /\ last.exc.cls = "LatitudeError"
    /\ Descriptor.area = Box(40, 60, 0, 100)

(* C6: a setter call that fails leaves every field of the owned descriptor
   as it was before the call, the field it targets included. *)
C6_NoWriteOnFailure ==
    (last.op \in SetterOps /\ Failed(last)) =>
        /\ Len(heap) = Len(before)
        /\ \A f \in Fields : Descriptor[f] = DescriptorBefore[f]

(* a rejected download_format after the descriptor had left its defaults *)
C6_Witness ==
    /\ Len(log) >= 2
    /\ last.op = "download_format"
    /\ last.args[1] = PyStr(<<"t", "a", "r">>)
    /\ last.exc.cls = "ValidationError"
    /\ Descriptor # WeatherApi_init

(* C7, as claimed: a list setter accepts its argument exactly when it is a list
   whose every element is a string (the empty list too); on acceptance the
   field equals the argument, and otherwise the call fails with a
   ValidationError naming the field. *)
C7_ListSetters_Claimed ==
    last.op \in ListSetterOps =>
        LET arg == last.args[1]
            listOfStrings ==
                arg.t = "list" /\ \A i \in 1..Len(arg.v) : arg.v[i].t = "str"
        IN  /\ listOfStrings => (Succeeded(last) /\ Descriptor[last.op] = arg)
            /\ ~listOfStrings =>
                    (IsValidationError(last.exc.cls) /\ last.exc.field = last.op)

(* C7, amended: as above, but the failure is a built-in ValueError naming the
   field, which is no ValidationError. *)
C7_ListSetters ==
    last.op \in ListSetterOps =>
        LET arg == last.args[1]
            listOfStrings ==
                arg.t = "list" /\ \A i \in 1..Len(arg.v) : arg.v[i].t = "str"
        IN  /\ listOfStrings => (Succeeded(last) /\ Descriptor[last.op] = arg)
            /\ ~listOfStrings =>
                    /\ last.exc.cls = "ValueError"
                    /\ ~IsValidationError(last.exc.cls)
                    /\ last.exc.field = last.op

(* product_type(["2024", 5]) was rejected and the empty list was accepted *)
C7_Witness ==
    /\ Len(log) = 2
    /\ log[1].op = "variables" /\ log[1].args[1] = PyList(<<>>) /\ Succeeded(log[1])
    /\ Descriptor.variables = PyList(<<>>)
    /\ log[2].op = "product_type"
    /\ log[2].args[1] = PyList(<<PyStr(Chars_2024), PyInt(5)>>)
    /\ Failed(log[2])

(* C8: data_format(value) and download_format(value), on a string, trim and
   lower-case the value; the call succeeds exactly when the normalized value is
   netcdf or grib (data_format), unarchived or zip (download_format), and then
   stores the normalized value; otherwise it raises a ValidationError. *)
C8_Formats ==
    (last.op \in {"data_format", "download_format"} /\ last.args[1].t = "str") =>
        LET norm == Normalized(last.args[1].v)
            allowed == IF last.op = "data_format"
                       THEN {Chars_netcdf, Chars_grib}
                       ELSE {Chars_unarchived, Chars_zip}
        IN  /\ norm \in allowed => (Succeeded(last) /\ Descriptor[last.op] = PyStr(norm))
            /\ norm \notin allowed => last.exc.cls = "ValidationError"

(* data_format(" NetCDF ") stored "netcdf" *)
C8_Witness ==
    /\ last.op = "data_format"
    /\ last.args[1] = PyStr(<<" ", "N", "e", "t", "C", "D", "F", " ">>)
    /\ Succeeded(last)
    /\ Descriptor.data_format = PyStr(Chars_netcdf)

(* The scenario of C9: build i, then exactly one call, a successful setter
   that changed the descriptor, then build i+1, which is the last call made. *)
BuildSetBuild(i) ==
    /\ builds[i + 1].at = builds[i].at + 2
    /\ Len(log) = builds[i + 1].at
    /\ log[builds[i].at + 1].op \in SetterOps
    /\ Succeeded(log[builds[i].at + 1])
    /\ builds[i + 1].seen # builds[i].seen

(* the descriptor the i-th build() returned, read through that reference now *)
Returned(i) == heap[builds[i].ret.v[1]]

(* C9, as claimed: after build(), one successful setter that changes one field
   to a different value, and build() again, the two returned descriptors
   differ in that field (the first still carries the old value, the second the
   new one) and are equal in every other field. *)
C9_BuildTwice_Claimed ==
    \A i \in 1..(Len(builds) - 1) :
        BuildSetBuild(i) =>
            LET f == TargetField(log[builds[i].at + 1].op)
            IN  /\ Returned(i)[f] # Returned(i + 1)[f]
                /\ Returned(i)[f] = builds[i].seen[f]
                /\ Returned(i + 1)[f] = Given(log[builds[i].at + 1])
                /\ \A g \in Fields \ {f} : Returned(i)[g] = Returned(i + 1)[g]

(* C9, amended: both build() calls return the same descriptor object, so after
   the second build both show the new value in the changed field (the first no
   longer carries the old one); every other field is equal in the two and is
   as it was at the first build. *)
C9_BuildTwice ==
    \A i \in 1..(Len(builds) - 1) :
        BuildSetBuild(i) =>
            LET f == TargetField(log[builds[i].at + 1].op)
            IN  /\ builds[i].ret = builds[i + 1].ret
                /\ Returned(i)[f] = Given(log[builds[i].at + 1])
                /\ Returned(i + 1)[f] = Given(log[builds[i].at + 1])
                /\ Returned(i)[f] # builds[i].seen[f]
                /\ \A g \in Fields \ {f} :
                      /\ Returned(i)[g] = Returned(i + 1)[g]
                      /\ Returned(i)[g] = builds[i].seen[g]

(* build(), month_range(9, 4), build() *)
C9_Witness ==
    /\ Len(builds) = 2
    /\ BuildSetBuild(1)
    /\ log[2].op = "month_range"
    /\ builds[1].seen.month # builds[2].seen.month

(* the i-th call was a successful setter call; the field it targeted *)
IsWrite(i) == log[i].op \in SetterOps /\ Succeeded(log[i])
Written(i) == TargetField(log[i].op)

(* C10: a successful setter call writes only its own field, leaves the nine
   others unchanged and returns the builder; so after any calls each field
   holds the value given by the last successful call that targeted it, or its
   default if none did, and repeating a call with the same argument changes
   nothing. *)
C10_Frame ==
    /\ (last.op \in SetterOps /\ Succeeded(last)) =>
            /\ last.ret = Self
            /\ Len(heap) = Len(before)
            /\ Descriptor[TargetField(last.op)] = Given(last)
            /\ \A g \in Fields \ {TargetField(last.op)} : Descriptor[g] = DescriptorBefore[g]
    /\ \A i \in 1..Len(log) :
            (IsWrite(i) /\ ~(\E j \in (i + 1)..Len(log) : IsWrite(j) /\ Written(j) = Written(i)))
                => Descriptor[Written(i)] = Given(log[i])
    /\ \A f \in Fields \ {Written(i) : i \in {j \in 1..Len(log) : IsWrite(j)}} :
            Descriptor[f] = WeatherApi_init[f]
    /\ (/\ Len(log) >= 2
        /\ last.op \in SetterOps
        /\ Succeeded(last)
        /\ log[Len(log) - 1].op = last.op
        /\ log[Len(log) - 1].args = last.args
        /\ Succeeded(log[Len(log) - 1])) => heap = before

(* month, then day_range, then month_range over the same field as the first *)
C10_Witness ==
    /\ Len(log) = 3
    /\ log[1].op = "month" /\ Succeeded(log[1])
    /\ log[2].op = "day_range" /\ Succeeded(log[2])
    /\ log[3].op = "month_range" /\ Succeeded(log[3])
    /\ Descriptor.month = Given(log[3])
    /\ Descriptor.day = Given(log[2])


(* C11: the year that year_range checks its stop against, and that
   RequestBuilder.year_range(start) uses when stop is omitted, is the year the
   system clock shows when the call is made: a year_range call made at clock
   year `now` succeeds exactly when 1939 <= start <= stop <= now, with stop
   = now when it is omitted, and then stores the decimal strings of
   start..stop; otherwise it raises a ValidationError. *)
C11_ClockYear ==
    [][(log' # log /\ last'.op = "year_range") =>
            LET now == clockYear
                c == last'
                start == c.args[1].v
                stop == IF Len(c.args) = 2 THEN c.args[2].v ELSE now
                r == Descriptor'.year.v
            IN  IF 1939 <= start /\ start <= stop /\ stop <= now
                THEN /\ Succeeded(c)
                     /\ Descriptor'.year.t = "list"
                     /\ Len(r) = stop - start + 1
                     /\ \A i \in 1..Len(r) :
                           /\ r[i].t = "str"
                           /\ IsDecimalOf(r[i].v, start + i - 1)
                ELSE c.exc.cls = "ValidationError"]_vars


(* C12: whatever setter calls were made on the builder, accepted or rejected,
   the descriptor it owns holds a data_format that is "netcdf" or "grib", a
   download_format that is "unarchived" or "zip", and an area that is a list
   of exactly four numbers (north, west, south, east) with
   -90 <= south <= north <= 90 and -180 <= west <= east <= 180; this holds of
   the defaults of a fresh builder too. *)
C12_DescriptorInvariant ==
    LET a == Descriptor.area.v
    IN  /\ Descriptor.data_format \in {PyStr(Chars_netcdf), PyStr(Chars_grib)}
        /\ Descriptor.download_format \in {PyStr(Chars_unarchived), PyStr(Chars_zip)}
        /\ Descriptor.area.t = "list"
        /\ Len(a) = 4
        /\ \A i \in 1..4 : a[i].t \in {"int", "float"}
        /\ -90 <= a[3].v /\ a[3].v <= a[1].v /\ a[1].v <= 90
        /\ -180 <= a[2].v /\ a[2].v <= a[4].v /\ a[4].v <= 180

(* an accepted box and an accepted format replaced the defaults, and the last
   call, an area with south above north, was rejected *)
C12_Witness ==
    /\ Len(log) = 3
    /\ \E i \in 1..2 : log[i].op = "area" /\ Succeeded(log[i])
    /\ \E i \in 1..2 : log[i].op = "data_format" /\ Succeeded(log[i])
    /\ last.op = "area"
    /\ last.args = <<Box(0, 60, 40, 100)>>
    /\ last.exc.cls = "LatitudeError"
    /\ Descriptor.area = Box(90, -120, -90, 180)
    /\ Descriptor.data_format = PyStr(Chars_grib)
    /\ Descriptor.area # WeatherApi_init.area

=============================================================================
